---- MODULE Spec2Model ----
(***************************************************************************)
(* A model of valleyjudge (src/valleyjudge.py): the bracket evaluator      *)
(* Taxes.calculate_due, the per-year tax aggregation of Taxes.__init__,    *)
(* the take-home query, the vesting schedule generator make_vests, the     *)
(* daily pay resolver pay_info and the table builder make_earnings_table.  *)
(*                                                                         *)
(* Money is exact: a number is a reduced fraction <<n, d>> with d > 0, and *)
(* float('inf') is <<1, 0>>.  Dates are records [year, month, day] of the  *)
(* proleptic Gregorian calendar, as datetime.date.                         *)
(***************************************************************************)
EXTENDS Integers, Sequences, FiniteSets, TLC

VARIABLES
    cd_gross_pay,   \* calculate_due: the argument gross_pay
    cd_brackets,    \* calculate_due: the argument brackets
    cd_pc,          \* calculate_due: "call" before, "returned" after
    cd_result,      \* calculate_due: the value returned
    tx_events,      \* Taxes: the income_events given to the constructor
    tx_pc,          \* Taxes: "new", "constructed" or "raised"
    tx_self,        \* Taxes: the object's fields after __init__
    tx_query,       \* Taxes: the last calculate_take_home_pay(date, raw_pay)
    tx_answer,      \* Taxes: what that call returned or raised
    mv,             \* make_vests: its arguments and locals, and where it is
    pi,             \* pay_info: its arguments and what it returned
    met_offers,         \* make_earnings_table: the argument offers
    met_start_date,     \* make_earnings_table: the argument start_date
    met_nr_years,       \* make_earnings_table: the argument nr_years
    met_taxes,          \* make_earnings_table: the argument taxes ("None" for None)
    met_already_earned, \* already_earned_first_year and already_earned_state
    met_paydays,        \* make_earnings_table: the argument paydays
    met_pc,             \* make_earnings_table: the part of it reached
    met_raised,         \* make_earnings_table: the exception it ended in, or ""
    met_end_date,       \* make_earnings_table: the local end_date
    met_vests,          \* make_earnings_table: the local vests
    met_synthetic,      \* per offer, the refresher grants whose vests were made
    met_offer_taxes,    \* make_earnings_table: the local offer_taxes
    met_data,           \* make_earnings_table: the local data
    met_gross,          \* per day and offer, the (cash, equity) pay_info returned
    met_queries,        \* the calculate_take_home_pay calls of the walk
    met_table           \* make_earnings_table: the tuple returned

dueVars == <<cd_gross_pay, cd_brackets, cd_pc, cd_result>>

taxVars == <<tx_events, tx_pc, tx_self, tx_query, tx_answer>>

mvVars == <<mv>>

payVars == <<pi>>

tblArgs == <<met_offers, met_start_date, met_nr_years, met_taxes, met_already_earned, met_paydays>>

tblVars == <<met_offers, met_start_date, met_nr_years, met_taxes, met_already_earned, met_paydays,
             met_pc, met_raised, met_end_date, met_vests, met_synthetic, met_offer_taxes, met_data, met_gross, met_queries, met_table>>

vars == <<cd_gross_pay, cd_brackets, cd_pc, cd_result,
          tx_events, tx_pc, tx_self, tx_query, tx_answer, mv, pi,
          met_offers, met_start_date, met_nr_years, met_taxes, met_already_earned, met_paydays,
          met_pc, met_raised, met_end_date, met_vests, met_synthetic, met_offer_taxes, met_data, met_gross, met_queries, met_table>>

-----------------------------------------------------------------------------
(* Exact arithmetic for Python's numbers.                                  *)

Abs(n) == IF n < 0 THEN -n ELSE n

RECURSIVE GCD(_, _)
GCD(a, b) == IF b = 0 THEN a ELSE GCD(b, a % b)

Frac(n, d) ==
    IF n = 0 THEN <<0, 1>>
    ELSE LET s == IF d < 0 THEN -1 ELSE 1
             g == GCD(Abs(n), Abs(d))
         IN  <<(s * n) \div g, (s * d) \div g>>

R(n) == <<n, 1>>

inf == <<1, 0>>

IsInf(a) == a[2] = 0

RLe(a, b) ==
    IF IsInf(b) THEN TRUE
    ELSE IF IsInf(a) THEN FALSE
    ELSE LET g == GCD(a[2], b[2])
         IN  a[1] * (b[2] \div g) <= b[1] * (a[2] \div g)

RLt(a, b) == ~RLe(b, a)

RMin(a, b) == IF RLe(a, b) THEN a ELSE b

RMax(a, b) == IF RLe(a, b) THEN b ELSE a

RAdd(a, b) ==
    IF a[1] = 0 THEN b
    ELSE IF b[1] = 0 THEN a
    ELSE LET g == GCD(a[2], b[2])
         IN  Frac(a[1] * (b[2] \div g) + b[1] * (a[2] \div g),
                  (a[2] \div g) * b[2])

RNeg(a) == <<-a[1], a[2]>>

RSub(a, b) == RAdd(a, RNeg(b))

RMul(a, b) ==
    IF a[1] = 0 \/ b[1] = 0 THEN <<0, 1>>
    ELSE LET g1 == GCD(Abs(a[1]), b[2])
             g2 == GCD(Abs(b[1]), a[2])
         IN  Frac((a[1] \div g1) * (b[1] \div g2),
                  (a[2] \div g2) * (b[2] \div g1))

\* a / b for b # 0 (the callers raise ZeroDivisionError when b = 0)
RDiv(a, b) == RMul(a, Frac(b[2], b[1]))

-----------------------------------------------------------------------------
(* The bracket tables of the repository: (rate, limit) pairs.              *)

Bracket(rate_num, rate_den, limit) ==
    [rate |-> Frac(rate_num, rate_den), limit |-> limit]

NO_TAXES == << Bracket(0, 1, inf) >>

FEDERAL_TAX_BRACKETS_2016 ==
    << Bracket(100, 1000, R(9275)),
       Bracket(150, 1000, R(37650)),
       Bracket(250, 1000, R(91150)),
       Bracket(280, 1000, R(190150)),
       Bracket(330, 1000, R(413350)),
       Bracket(350, 1000, R(415050)),
       Bracket(396, 1000, inf) >>

AMT_BRACKETS_2016 ==
    << Bracket(260, 1000, R(186300)),
       Bracket(280, 1000, inf) >>

STATE_TAX_BRACKETS_2016_CA ==
    << Bracket(10, 1000, R(7582)),
       Bracket(20, 1000, R(17976)),
       Bracket(40, 1000, R(28371)),
       Bracket(60, 1000, R(39384)),
       Bracket(80, 1000, R(49774)),
       Bracket(93, 1000, R(254250)),
       Bracket(103, 1000, R(305100)),
       Bracket(113, 1000, R(508500)),
       Bracket(123, 1000, R(1000000)),
       Bracket(133, 1000, inf) >>

STATE_SSDI_BRACKETS_2016_CA ==
    << Bracket(9, 1000, R(106742)),
       Bracket(0, 1, inf) >>

MEDICARE_TAX_BRACKETS_2016 == << Bracket(145, 10000, inf) >>

SOCIAL_SECURITY_TAX_BRACKETS_2016 ==
    << Bracket(62, 1000, R(118500)),
       Bracket(0, 1, inf) >>

-----------------------------------------------------------------------------
(* Taxes.calculate_due                                                     *)

\* one iteration of `for rate, limit in brackets`, on the loop's locals
calculate_due_body(loc, bracket) ==
    LET tax_basis == RMin(bracket.limit, loc.gross_pay)
    IN  [total_tax |-> RAdd(loc.total_tax, RMul(tax_basis, bracket.rate)),
         gross_pay |-> RSub(loc.gross_pay, tax_basis)]

RECURSIVE calculate_due_loop(_, _, _)
calculate_due_loop(loc, brackets, i) ==
    IF i > Len(brackets) THEN loc
    ELSE calculate_due_loop(calculate_due_body(loc, brackets[i]), brackets, i + 1)

calculate_due(gross_pay, brackets) ==
    calculate_due_loop([total_tax |-> R(0), gross_pay |-> gross_pay],
                       brackets, 1).total_tax

-----------------------------------------------------------------------------
(* datetime.date and datetime.timedelta, in days                           *)

Date(y, m, d) == [year |-> y, month |-> m, day |-> d]

IsLeap(y) == y % 4 = 0 /\ (y % 100 # 0 \/ y % 400 = 0)

DaysInMonth(y, m) ==
    IF m = 2 THEN (IF IsLeap(y) THEN 29 ELSE 28)
    ELSE IF m \in {4, 6, 9, 11} THEN 30 ELSE 31

\* whether date(y, m, d) exists; date() and date.replace() raise
\* ValueError when it does not
ValidDate(y, m, d) ==
    /\ m \in 1 .. 12
    /\ d >= 1
    /\ d <= DaysInMonth(y, m)

DaysBeforeYear(y) ==
    (y - 1) * 365 + (y - 1) \div 4 - (y - 1) \div 100 + (y - 1) \div 400

\* the days of a common year before the first of each month
DAYS_BEFORE_MONTH == << 0, 31, 59, 90, 120, 151, 181, 212, 243, 273, 304, 334 >>

DaysBeforeMonth(y, m) ==
    DAYS_BEFORE_MONTH[m] + (IF m > 2 /\ IsLeap(y) THEN 1 ELSE 0)

\* date.toordinal()
ToOrdinal(date) ==
    DaysBeforeYear(date.year) + DaysBeforeMonth(date.year, date.month) + date.day

\* date.fromordinal(n)
\* date.fromordinal(n): the year is next to the estimate n / 365.2425, the
\* month is the estimate (r + 49) / 32 or the month before it
FromOrdinal(n) ==
    LET y0 == ((n - 1) * 400) \div 146097 + 1
        y == IF n <= DaysBeforeYear(y0) THEN y0 - 1
             ELSE IF n > DaysBeforeYear(y0 + 1) THEN y0 + 1
             ELSE y0
        r == n - DaysBeforeYear(y)
        m0 == (r + 49) \div 32
        m == IF DaysBeforeMonth(y, m0) >= r THEN m0 - 1 ELSE m0
    IN  Date(y, m, r - DaysBeforeMonth(y, m))

\* the year of date.max in the model; datetime's is 9999.  Adding a day to
\* date.max raises OverflowError.
MaxDateYear == 2040

DateMax == Date(MaxDateYear, 12, 31)

\* date + timedelta(days = n)
AddDays(date, n) == FromOrdinal(ToOrdinal(date) + n)

\* (a - b).days
DaysBetween(a, b) == ToOrdinal(a) - ToOrdinal(b)

\* a < b on dates
DateLt(a, b) == ToOrdinal(a) < ToOrdinal(b)

\* (month, day) in dates, for a sequence of (MONTH, DAY) pairs
InDates(month, day, dates) == \E i \in DOMAIN dates : dates[i] = <<month, day>>

-----------------------------------------------------------------------------
(* Taxes.__init__ and Taxes.calculate_take_home_pay                        *)

\* The keyword arguments a Taxes subclass passes to Taxes.__init__, as
\* Taxes2016 does: a small tax year with amounts in thousands.  The state
\* dictionaries have the keys "CA" and "WA", as the 2016 ones.
ModelTaxes ==
    [personal_exemption |-> <<R(4), R(200), R(300)>>,
     amt_exemption |-> <<R(50), R(100), R(300)>>,
     amt_brackets |-> << Bracket(1, 4, R(180)), Bracket(3, 10, inf) >>,
     federal_standard_deduction |-> R(6),
     federal_brackets |->
         << Bracket(1, 10, R(10)), Bracket(1, 5, R(40)), Bracket(3, 10, inf) >>,
     medicare_brackets |-> << Bracket(1, 50, inf) >>,
     social_security_brackets |->
         << Bracket(1, 20, R(120)), Bracket(0, 1, inf) >>,
     state_standard_deductions |-> [CA |-> R(4), WA |-> R(0)],
     state_brackets |->
         [CA |-> << Bracket(1, 20, R(20)), Bracket(1, 10, inf) >>,
          WA |-> NO_TAXES],
     state_ssdi_brackets |->
         [CA |-> << Bracket(1, 100, R(100)), Bracket(0, 1, inf) >>,
          WA |-> NO_TAXES]]

\* the state abbreviations in the order sorted() gives them
SortedStates == << "CA", "WA" >>

\* sum of the amounts of events[lo..hi] of one year and one state
RECURSIVE SumIncome(_, _, _, _, _)
SumIncome(events, year, state, lo, hi) ==
    IF lo > hi THEN R(0)
    ELSE IF lo = hi
    THEN IF events[lo].date.year = year /\ events[lo].state = state
         THEN events[lo].amount
         ELSE R(0)
    ELSE LET mid == (lo + hi) \div 2
         IN  RAdd(SumIncome(events, year, state, lo, mid),
                  SumIncome(events, year, state, mid + 1, hi))

\* lines 176-181: income_by_year[date.year][state] += amount; a state is a
\* key of a year's dictionary when an event of that year names it
IncomeByYear(events) ==
    LET years == { events[i].date.year : i \in DOMAIN events }
        keys(y) == { events[i].state : i \in { j \in DOMAIN events :
                                                events[j].date.year = y } }
    IN  [y \in years |->
            [st \in keys(y) |-> SumIncome(events, y, st, 1, Len(events))]]

IncomeDates(events) == { events[i].date : i \in DOMAIN events }

\* sum(iby.values())
RECURSIVE SumValues(_, _)
SumValues(iby, keys) ==
    IF keys = {} THEN R(0)
    ELSE LET k == CHOOSE x \in keys : TRUE
         IN  RAdd(iby[k], SumValues(iby, keys \ {k}))

YearIncome(iby) == SumValues(iby, DOMAIN iby)

\* lines 188-194 for one state of the year: state_tax and state_sdi
StateTax(p, state, state_income) ==
    LET sb == p.state_brackets[state]
        ssd == p.state_standard_deductions[state]
        state_agi == RMax(R(0), RSub(state_income, ssd))
    IN  [state_tax |-> calculate_due(state_agi, sb),
         state_sdi |-> calculate_due(state_income, p.state_ssdi_brackets[state])]

\* lines 186-201: the loop over sorted(iby.items()); its locals afterwards.
\* state_tax keeps the value of the last iteration.
RECURSIVE StateLoop(_, _, _, _)
StateLoop(p, iby, i, loc) ==
    IF i > Len(SortedStates) \/ loc.zero_division THEN loc
    ELSE LET state == SortedStates[i]
         IN  IF state \notin DOMAIN iby THEN StateLoop(p, iby, i + 1, loc)
             ELSE LET st == StateTax(p, state, iby[state])
                  IN  StateLoop(p, iby, i + 1,
                        [total_state_tax |->
                             RAdd(loc.total_state_tax,
                                  RAdd(st.state_tax, st.state_sdi)),
                         state_tax |-> st.state_tax,
                         \* line 200: (state_tax + state_sdi) / state_income
                         zero_division |-> iby[state] = R(0)])

\* lines 203-206 and 216-219: the phased-out exemption
Phaseout(income, exemption) ==
    LET phaseout == RDiv(RSub(income, exemption[2]),
                         RSub(exemption[3], exemption[2]))
        clamped == RMin(RMax(R(0), phaseout), R(1))
    IN  RMul(exemption[1], RSub(R(1), clamped))

\* what line 227 stores for the year
StoredYearTax(federal_tax, state_tax, total_state_tax, medicare_tax, social_security_tax) ==
    RAdd(federal_tax, state_tax)

\* lines 184-245: one iteration of `for year in sorted(income_by_year)`
YearTaxes(p, iby) ==
    LET income == YearIncome(iby)
        states == StateLoop(p, iby, 1,
                      [total_state_tax |-> R(0), state_tax |-> R(0),
                       zero_division |-> FALSE])
        effective_pe == Phaseout(income, p.personal_exemption)
        federal_agi == RMax(R(0), RSub(income, effective_pe))
        federal_itemized_deduction == states.total_state_tax
        federal_deduction == RMax(federal_itemized_deduction,
                                  p.federal_standard_deduction)
        federal_tax == calculate_due(
                           RMax(R(0), RSub(federal_agi, federal_deduction)),
                           p.federal_brackets)
        amti == income
        effective_amte == Phaseout(amti, p.amt_exemption)
        amt_base == RMax(R(0), RSub(amti, effective_amte))
        amt == calculate_due(amt_base, p.amt_brackets)
        medicare_tax == calculate_due(income, p.medicare_brackets)
        social_security_tax == calculate_due(income, p.social_security_brackets)
    IN  IF states.zero_division
        THEN [zero_division |-> TRUE]
        ELSE [zero_division |-> income = R(0),   \* line 245: total_tax / income
              income |-> income,
              total_state_tax |-> states.total_state_tax,
              state_tax |-> states.state_tax,
              federal_tax |-> federal_tax,
              amt |-> amt,
              medicare_tax |-> medicare_tax,
              social_security_tax |-> social_security_tax,
              total_tax |-> RAdd(RAdd(RAdd(RMax(federal_tax, amt),
                                           states.state_tax),
                                      medicare_tax),
                                 social_security_tax),
              stored |-> StoredYearTax(federal_tax, states.state_tax,
                                       states.total_state_tax,
                                       medicare_tax, social_security_tax)]

\* Taxes.__init__: the object's fields, or the exception the constructor
\* ends in.  year_locals keeps each year's locals, which the code only logs.
Taxes__init__(p, income_events) ==
    CHOOSE self \in
        { IF \E y \in DOMAIN income_by_year : year_locals[y].zero_division
          THEN [raised |-> "ZeroDivisionError"]
          ELSE [raised |-> "",
                income_dates |-> IncomeDates(income_events),
                income_by_year |-> income_by_year,
                tax_by_year |-> [y \in DOMAIN income_by_year |->
                                    year_locals[y].stored],
                year_locals |-> year_locals] :
            <<income_by_year, year_locals>> \in
                { <<iby, [y \in DOMAIN iby |-> YearTaxes(p, iby[y])]>> :
                    iby \in { IncomeByYear(income_events) } } } : TRUE

\* Taxes.calculate_take_home_pay
calculate_take_home_pay(self, date, raw_pay) ==
    IF date \notin self.income_dates
    THEN [raised |-> "AssertionError"]
    ELSE LET year_income == YearIncome(self.income_by_year[date.year])
             year_tax == self.tax_by_year[date.year]
         IN  IF year_income = R(0)
             THEN [raised |-> "ZeroDivisionError"]
             ELSE [raised |-> "",
                   value |-> RSub(raw_pay,
                                  RMul(RDiv(raw_pay, year_income), year_tax))]

-----------------------------------------------------------------------------
(* make_vests                                                              *)

\* lines 437-442: the locals when the while loop is first reached, or the
\* ValueError of start_date.replace(year = start_date.year + 1)
MvEntry(total, annual_ratios, start_date, vesting_dates) ==
    IF ~ValidDate(start_date.year + 1, start_date.month, start_date.day)
    THEN [pc |-> "raised", total |-> total, start_date |-> start_date,
          vesting_dates |-> vesting_dates, annual_ratios |-> annual_ratios,
          arg_annual_ratios |-> annual_ratios, vests |-> << >>]
    ELSE LET cliff_vest_day ==
                 Date(start_date.year + 1, start_date.month, start_date.day)
         IN  [pc |-> "loop", total |-> total, start_date |-> start_date,
              vesting_dates |-> vesting_dates,
              arg_annual_ratios |-> annual_ratios,
              cliff_vest_day |-> cliff_vest_day,
              vests |-> << [date |-> cliff_vest_day,
                            amount |-> RMul(annual_ratios[1], total)] >>,
              annual_ratios |-> Tail(annual_ratios),
              nrv |-> 0,
              d |-> AddDays(cliff_vest_day, 1)]

\* MvBody with the fraction divided by the number of distinct anniversaries
MvBody_DistinctDates(f) ==
    LET hit == InDates(f.d.month, f.d.day, f.vesting_dates)
        distinct == { f.vesting_dates[i] : i \in DOMAIN f.vesting_dates }
        frac == RDiv(f.annual_ratios[1], R(Cardinality(distinct)))
        vests == IF hit
                 THEN Append(f.vests, [date |-> f.d,
                                       amount |-> RMul(frac, f.total)])
                 ELSE f.vests
        nrv == IF hit THEN f.nrv + 1 ELSE f.nrv
        year_done == nrv = Len(f.vesting_dates)
    IN  IF f.d = DateMax
        THEN [f EXCEPT !.pc = "OverflowError"]
        ELSE [f EXCEPT !.vests = vests,
                       !.nrv = IF year_done THEN 0 ELSE nrv,
                       !.annual_ratios = IF year_done THEN Tail(@) ELSE @,
                       !.d = AddDays(f.d, 1)]

\* lines 444-452: one iteration of `while annual_ratios`; line 452 raises
\* OverflowError when d is date.max
MvBody(f) ==
    LET hit == InDates(f.d.month, f.d.day, f.vesting_dates)
        frac == RDiv(f.annual_ratios[1], R(Len(f.vesting_dates)))
        vests == IF hit
                 THEN Append(f.vests, [date |-> f.d,
                                       amount |-> RMul(frac, f.total)])
                 ELSE f.vests
        nrv == IF hit THEN f.nrv + 1 ELSE f.nrv
        year_done == nrv = Len(f.vesting_dates)
    IN  IF f.d = DateMax
        THEN [f EXCEPT !.pc = "OverflowError"]
        ELSE [f EXCEPT !.vests = vests,
                       !.nrv = IF year_done THEN 0 ELSE nrv,
                       !.annual_ratios = IF year_done THEN Tail(@) ELSE @,
                       !.d = AddDays(f.d, 1)]

\* up to n iterations of the while loop, fewer when it ends sooner.  The
\* split in halves keeps the evaluation shallow; each half is evaluated
\* before the next starts.
RECURSIVE MvRepeat(_, _)
MvRepeat(f, n) ==
    IF f.pc # "loop" \/ f.annual_ratios = << >> \/ n = 0 THEN f
    ELSE IF n = 1 THEN MvBody(f)
    ELSE CHOOSE r \in { MvRepeat(g, n - n \div 2) :
                          g \in { MvRepeat(f, n \div 2) } } : TRUE

\* lines 443-452: the while loop, run to its end
RECURSIVE MvWhile(_, _)
MvWhile(f, n) ==
    IF f.pc # "loop" \/ f.annual_ratios = << >> THEN f
    ELSE CHOOSE r \in { MvWhile(g, 2 * n) : g \in { MvRepeat(f, n) } } : TRUE

\* make_vests: the (VDATE, VAMOUNT) list returned, or the exception
make_vests(total, annual_ratios, start_date, vesting_dates) ==
    CHOOSE r \in
        { IF f0.pc = "raised"
          THEN [raised |-> "ValueError", vests |-> << >>]
          ELSE CHOOSE q \in
                   { IF f1.pc = "OverflowError"
                     THEN [raised |-> "OverflowError", vests |-> << >>]
                     ELSE [raised |-> "", vests |-> f1.vests] :
                       f1 \in { MvWhile(f0, 512) } } : TRUE :
            f0 \in { MvEntry(total, annual_ratios, start_date,
                              vesting_dates) } } : TRUE

-----------------------------------------------------------------------------
(* RsuGrant, Offer, pay_info, gen_raw_pay                                  *)

DEFAULT_PAYDAYS == << 1, 15 >>

DEFAULT_BONUS_DATES == << <<1, 1>>, <<6, 1>> >>

\* RsuGrant.start: None, a timedelta (in days) or a date
StartNone == [kind |-> "None"]

StartDelta(days) == [kind |-> "timedelta", days |-> days]

StartDate(date) == [kind |-> "date", date |-> date]

\* RsuGrant.__init__
RsuGrant(total, start, vesting_dates, vesting) ==
    [total |-> total, start |-> start, vesting_dates |-> vesting_dates,
     vesting |-> vesting]

\* Offer.__init__ on its keyword arguments kw: the fields of the object.
\* Line 362 sets self.refresher_dates from bonus_dates; the refresher_dates
\* argument is kept here as arg_refresher_dates, which no code reads.
Offer(kw) ==
    [name |-> kw.name, base |-> kw.base, bonus |-> kw.bonus,
     grants |-> kw.grants, state |-> kw.state,
     bonus_target |-> kw.bonus_target, bonus_dates |-> kw.bonus_dates,
     refresher_amount |-> kw.refresher_amount,
     refresher_dates |-> kw.bonus_dates,
     arg_refresher_dates |-> kw.refresher_dates]

\* iterdates(start, end): the days start, start + 1, ..., end - 1
iterdates(start, end) ==
    [n \in 1 .. DaysBetween(end, start) |-> AddDays(start, n - 1)]

InSeq(x, seq) == \E i \in DOMAIN seq : seq[i] = x

\* lines 396-398: the equity of the vests of this offer dated this day.
\* An offer object is identified by its position in `offers`.
RECURSIVE VestedOn(_, _, _, _)
VestedOn(offer_id, day, vests, i) ==
    IF i > Len(vests) THEN R(0)
    ELSE RAdd(IF vests[i].offer = offer_id /\ vests[i].date = day
              THEN vests[i].amount ELSE R(0),
              VestedOn(offer_id, day, vests, i + 1))

\* pay_info with the equity of every vest of the day, whoever owns it
pay_info_AnyOwner(offer_id, offer, day, start_date, paydays, vests) ==
    LET salary == IF day = start_date THEN offer.bonus
                  ELSE IF InSeq(day.day, paydays)
                  THEN RDiv(offer.base, R(12 * Len(paydays)))
                  ELSE R(0)
        nbonus == Len(offer.bonus_dates)
        bonus_period == Frac(365, nbonus)
        bonus_amount ==
            RMul(RDiv(RMul(offer.bonus_target, offer.base), R(nbonus)),
                 RMin(R(1), RDiv(R(DaysBetween(day, start_date)), bonus_period)))
        cash == IF InDates(day.month, day.day, offer.bonus_dates)
                THEN RAdd(salary, bonus_amount) ELSE salary
        all == [i \in DOMAIN vests |-> [vests[i] EXCEPT !.offer = offer_id]]
    IN  [cash |-> cash, equity |-> VestedOn(offer_id, day, all, 1)]

\* pay_info with the bonus scaled by the days since the start without the
\* cap at one period
pay_info_Uncapped(offer_id, offer, day, start_date, paydays, vests) ==
    LET salary == IF day = start_date THEN offer.bonus
                  ELSE IF InSeq(day.day, paydays)
                  THEN RDiv(offer.base, R(12 * Len(paydays)))
                  ELSE R(0)
        nbonus == Len(offer.bonus_dates)
        bonus_period == Frac(365, nbonus)
        bonus_amount ==
            RMul(RDiv(RMul(offer.bonus_target, offer.base), R(nbonus)),
                 RDiv(R(DaysBetween(day, start_date)), bonus_period))
        cash == IF InDates(day.month, day.day, offer.bonus_dates)
                THEN RAdd(salary, bonus_amount) ELSE salary
    IN  [cash |-> cash, equity |-> VestedOn(offer_id, day, vests, 1)]

\* pay_info: (cash, equity) of an offer on a day
pay_info(offer_id, offer, day, start_date, paydays, vests) ==
    LET salary == IF day = start_date THEN offer.bonus
                  ELSE IF InSeq(day.day, paydays)
                  THEN RDiv(offer.base, R(12 * Len(paydays)))
                  ELSE R(0)
        nbonus == Len(offer.bonus_dates)
        bonus_period == Frac(365, nbonus)
        bonus_amount ==
            RMul(RDiv(RMul(offer.bonus_target, offer.base), R(nbonus)),
                 RMin(R(1), RDiv(R(DaysBetween(day, start_date)), bonus_period)))
        cash == IF InDates(day.month, day.day, offer.bonus_dates)
                THEN RAdd(salary, bonus_amount) ELSE salary
    IN  [cash |-> cash, equity |-> VestedOn(offer_id, day, vests, 1)]

\* gen_raw_pay: (day, cash, equity) for every day of [start_date, end_date)
gen_raw_pay(offer_id, offer, start_date, end_date, paydays, vests) ==
    [n \in 1 .. DaysBetween(end_date, start_date) |->
        LET day == AddDays(start_date, n - 1)
            pay == pay_info(offer_id, offer, day, start_date, paydays, vests)
        IN  [day |-> day, cash |-> pay.cash, equity |-> pay.equity]]

-----------------------------------------------------------------------------
(* make_earnings_table                                                     *)

NoGrantForRefresher == "ValueError: refresher specified with no initial grant"

GrantBeforeStart == "ValueError: grant starts before job start"

DayOutOfRange == "ValueError: day is out of range for month"

\* end_date with the day after the last anniversary left out
EndDate_NoExtraDay(start_date, nr_years) ==
    IF ~ValidDate(start_date.year + nr_years, start_date.month, start_date.day)
    THEN [raised |-> DayOutOfRange]
    ELSE [raised |-> "",
          end_date |-> Date(start_date.year + nr_years,
                            start_date.month, start_date.day)]

\* lines 474-477: end_date, or the ValueError of date.replace
EndDate(start_date, nr_years) ==
    IF ~ValidDate(start_date.year + nr_years, start_date.month, start_date.day)
    THEN [raised |-> DayOutOfRange]
    ELSE [raised |-> "",
          end_date |-> AddDays(Date(start_date.year + nr_years,
                                    start_date.month, start_date.day), 1)]

\* a relative grant start taken for the job's start date
GrantStart_IgnoreOffset(grant, start_date) ==
    IF grant.start.kind = "date" THEN grant.start.date ELSE start_date

\* lines 494-500: the grant's effective start date
GrantStart(grant, start_date) ==
    IF grant.start.kind = "None" THEN start_date
    ELSE IF grant.start.kind = "timedelta"
    THEN AddDays(start_date, grant.start.days)
    ELSE grant.start.date

\* one more make_vests call of an offer: its events are added to the
\* offer's, or its exception ends the build
AddVests(acc, call) ==
    IF acc.raised # "" THEN acc
    ELSE CHOOSE r \in
             { IF got.raised # ""
               THEN [acc EXCEPT !.raised = IF got.raised = "ValueError"
                                           THEN DayOutOfRange
                                           ELSE got.raised]
               ELSE [acc EXCEPT !.offer_vests = @ \o got.vests] :
                 got \in { make_vests(call.total, call.vesting, call.start,
                                       call.vesting_dates) } } : TRUE

\* lines 485-492: the refresher grants of an offer, day after day
RECURSIVE RefresherLoop(_, _, _, _)
RefresherLoop(acc, offer, days, i) ==
    IF i > Len(days) \/ acc.raised # "" THEN acc
    ELSE LET call == [total |-> offer.refresher_amount,
                      vesting |-> offer.grants[1].vesting,
                      start |-> days[i],
                      vesting_dates |-> offer.grants[1].vesting_dates]
         IN  CHOOSE r \in
                 { RefresherLoop([next EXCEPT !.synthetic = Append(@, call)],
                                 offer, days, i + 1) :
                     next \in { AddVests(acc, call) } } : TRUE

\* lines 493-509: the declared grants of an offer
RECURSIVE GrantLoop(_, _, _, _)
GrantLoop(acc, offer, start_date, i) ==
    IF i > Len(offer.grants) \/ acc.raised # "" THEN acc
    ELSE LET grant == offer.grants[i]
             grant_start == GrantStart(grant, start_date)
         IN  IF DateLt(grant_start, start_date)
             THEN [acc EXCEPT !.raised = GrantBeforeStart]
             ELSE CHOOSE r \in
                      { GrantLoop(next, offer, start_date, i + 1) :
                          next \in { AddVests(acc,
                                        [total |-> grant.total,
                                         vesting |-> grant.vesting,
                                         start |-> grant_start,
                                         vesting_dates |->
                                             grant.vesting_dates]) } } : TRUE

\* lines 480-509 for one offer: offer_vests, the synthetic grants made on
\* the way (the arguments of their make_vests calls), or the exception
OfferVests(offer, start_date, end_date) ==
    LET acc0 == [raised |-> "", offer_vests |-> << >>, synthetic |-> << >>]
        IsRefresherDay(day) ==
            InDates(day.month, day.day, offer.refresher_dates)
    IN  CHOOSE r \in
            { GrantLoop(acc1, offer, start_date, 1) :
                acc1 \in
                  { IF offer.refresher_amount = R(0) THEN acc0
                    ELSE IF offer.grants = << >>
                    THEN [acc0 EXCEPT !.raised = NoGrantForRefresher]
                    ELSE RefresherLoop(acc0, offer, days, 1) :
                      days \in { SelectSeq(iterdates(start_date, end_date),
                                           IsRefresherDay) } } } : TRUE

\* lines 478-510: the loop over the offers; vests holds (offer, date, amount)
RECURSIVE VestsLoop(_, _, _, _, _)
VestsLoop(acc, offers, start_date, end_date, i) ==
    IF i > Len(offers) \/ acc.raised # "" THEN acc
    ELSE CHOOSE r \in
             { IF ov.raised # ""
               THEN [acc EXCEPT !.raised = ov.raised]
               ELSE VestsLoop(
                        [acc EXCEPT
                           !.vests = @ \o
                               [k \in DOMAIN ov.offer_vests |->
                                   [offer |-> i,
                                    date |-> ov.offer_vests[k].date,
                                    amount |-> ov.offer_vests[k].amount]],
                           !.synthetic = Append(@, ov.synthetic)],
                        offers, start_date, end_date, i + 1) :
                 ov \in { OfferVests(offers[i], start_date,
                                      end_date) } } : TRUE

BuildVests(offers, start_date, end_date) ==
    VestsLoop([raised |-> "", vests |-> << >>, synthetic |-> << >>],
              offers, start_date, end_date, 1)

\* the income events of one offer without its projected pay
IncomeEvents_AlreadyEarnedOnly(offer_id, offer, start_date, tax_end_date, aefy, aes, paydays, vests) ==
    << [date |-> start_date, amount |-> aefy,
        state |-> IF aes = "None" THEN offer.state ELSE aes] >>

\* lines 516-526: the income events of one offer
IncomeEvents(offer_id, offer, start_date, tax_end_date, aefy, aes, paydays, vests) ==
    CHOOSE events \in
        { << [date |-> start_date, amount |-> aefy,
              state |-> IF aes = "None" THEN offer.state ELSE aes] >>
          \o [n \in DOMAIN raw |->
                 [date |-> raw[n].day,
                  amount |-> RAdd(raw[n].cash, raw[n].equity),
                  state |-> offer.state]] :
            raw \in { gen_raw_pay(offer_id, offer, start_date, tax_end_date,
                                   paydays, vests) } } : TRUE

\* lines 512-527: offer_taxes, one Taxes object per offer, or the exception
RECURSIVE TaxesLoop(_, _, _, _, _, _, _, _, _)
TaxesLoop(acc, offers, start_date, tax_end_date, aefy, aes, paydays, vests, i) ==
    IF i > Len(offers) \/ acc.raised # "" THEN acc
    ELSE CHOOSE r \in
             { IF obj.raised # ""
               THEN [acc EXCEPT !.raised = obj.raised]
               ELSE TaxesLoop([acc EXCEPT !.offer_taxes = Append(@, obj)],
                              offers, start_date, tax_end_date, aefy, aes,
                              paydays, vests, i + 1) :
                 obj \in
                   { Taxes__init__(ModelTaxes, events) :
                       events \in { IncomeEvents(i, offers[i], start_date,
                                                  tax_end_date, aefy, aes,
                                                  paydays, vests) } } } : TRUE

BuildTaxes(offers, start_date, end_date, taxes, aefy, aes, paydays, vests) ==
    IF taxes = "None" THEN [raised |-> "", offer_taxes |-> << >>]
    ELSE IF ~ValidDate(end_date.year + 1, end_date.month, end_date.day)
    THEN [raised |-> DayOutOfRange, offer_taxes |-> << >>]
    ELSE CHOOSE r \in
             { TaxesLoop([raised |-> "", offer_taxes |-> << >>], offers,
                         start_date, tax_end_date, aefy, aes, paydays,
                         vests, 1) :
                 tax_end_date \in { Date(end_date.year + 1, end_date.month,
                                          end_date.day) } } : TRUE

\* OfferFields with a tax field that leaves out the tax on equity:
\* for one offer on one day: its four fields of the row, the
\* take-home queries made, or the exception
OfferFields_TaxOfCashOnly(offer_id, offer, day, start_date, paydays, vests, taxes, offer_taxes) ==
    CHOOSE r \in
      { LET taxed == taxes # "None"
                       /\ (RLt(R(0), pay.cash) \/ RLt(R(0), pay.equity))
        IN  IF ~taxed
            THEN [raised |-> "", queried |-> FALSE, gross |-> pay,
                  fields |-> << pay.cash, pay.equity,
                                RAdd(pay.cash, pay.equity), R(0) >>]
            ELSE CHOOSE q \in
              { IF taxed_cash.raised # ""
                THEN [raised |-> taxed_cash.raised, queried |-> TRUE,
                      gross |-> pay, fields |-> << >>]
                ELSE [raised |-> "", queried |-> TRUE, gross |-> pay,
                      fields |->
                          << taxed_cash.value, taxed_equity.value,
                             RAdd(taxed_cash.value, taxed_equity.value),
                             RSub(pay.cash, taxed_cash.value) >>] :
                  taxed_cash \in
                      { calculate_take_home_pay(offer_taxes[offer_id], day,
                                                pay.cash) },
                  taxed_equity \in
                      { calculate_take_home_pay(offer_taxes[offer_id], day,
                                                pay.equity) } } : TRUE :
          pay \in { pay_info(offer_id, offer, day, start_date, paydays,
                             vests) } } : TRUE

\* lines 533-547 for one offer on one day: its four fields of the row, the
\* take-home queries made, or the exception
OfferFields(offer_id, offer, day, start_date, paydays, vests, taxes, offer_taxes) ==
    CHOOSE r \in
      { LET taxed == taxes # "None"
                       /\ (RLt(R(0), pay.cash) \/ RLt(R(0), pay.equity))
        IN  IF ~taxed
            THEN [raised |-> "", queried |-> FALSE, gross |-> pay,
                  fields |-> << pay.cash, pay.equity,
                                RAdd(pay.cash, pay.equity), R(0) >>]
            ELSE CHOOSE q \in
              { IF taxed_cash.raised # ""
                THEN [raised |-> taxed_cash.raised, queried |-> TRUE,
                      gross |-> pay, fields |-> << >>]
                ELSE [raised |-> "", queried |-> TRUE, gross |-> pay,
                      fields |->
                          << taxed_cash.value, taxed_equity.value,
                             RAdd(taxed_cash.value, taxed_equity.value),
                             RAdd(RSub(pay.cash, taxed_cash.value),
                                  RSub(pay.equity, taxed_equity.value)) >>] :
                  taxed_cash \in
                      { calculate_take_home_pay(offer_taxes[offer_id], day,
                                                pay.cash) },
                  taxed_equity \in
                      { calculate_take_home_pay(offer_taxes[offer_id], day,
                                                pay.equity) } } : TRUE :
          pay \in { pay_info(offer_id, offer, day, start_date, paydays,
                             vests) } } : TRUE

\* lines 531-548: the row of one day
RECURSIVE DayRow(_, _, _, _, _, _, _, _, _)
DayRow(row, offers, day, start_date, paydays, vests, taxes, offer_taxes, i) ==
    IF i > Len(offers) \/ row.raised # "" THEN row
    ELSE CHOOSE r \in
             { DayRow(next, offers, day, start_date, paydays, vests, taxes,
                      offer_taxes, i + 1) :
                 next \in
                   { [raised |-> f.raised, fields |-> row.fields \o f.fields,
                      gross |-> Append(row.gross, f.gross),
                      queries |->
                          IF f.queried
                          THEN Append(row.queries,
                                      [offer |-> i, day |-> day,
                                       cash |-> f.gross.cash,
                                       equity |-> f.gross.equity])
                          ELSE row.queries] :
                       f \in { OfferFields(i, offers[i], day, start_date,
                                           paydays, vests, taxes,
                                           offer_taxes) } } } : TRUE

\* lines 529-548: data, one row per day of [start_date, end_date), or the
\* exception of the first day that raises; with them what pay_info returned
\* for each day and offer (gross) and the calculate_take_home_pay calls made
\* until then, each with its offer, day and gross pay (queries)
WalkDays(offers, start_date, end_date, paydays, vests, taxes, offer_taxes) ==
    CHOOSE r \in
      { LET bad == { n \in DOMAIN rows : rows[n].raised # "" }
            last == IF bad = {} THEN Len(rows)
                    ELSE CHOOSE n \in bad : \A m \in bad : n <= m
            queries == UNION { { rows[n].queries[k] :
                                   k \in DOMAIN rows[n].queries } :
                               n \in 1 .. last }
        IN  IF bad # {}
            THEN [raised |-> rows[last].raised, data |-> << >>,
                  gross |-> << >>, queries |-> queries]
            ELSE [raised |-> "",
                  data |-> [n \in DOMAIN rows |-> rows[n].fields],
                  gross |-> [n \in DOMAIN rows |-> rows[n].gross],
                  queries |-> queries] :
          rows \in
            { [n \in DOMAIN days |->
                  DayRow([raised |-> "", fields |-> << days[n] >>,
                          gross |-> << >>, queries |-> << >>], offers,
                         days[n], start_date, paydays, vests, taxes,
                         offer_taxes, 1)] :
                days \in { iterdates(start_date, end_date) } } } : TRUE

\* add_rows_pairwise keeping the date of the running row
add_rows_pairwise_Row1Date(row1, row2) ==
    [i \in 1 .. Len(row1) |-> IF i = 1 THEN row1[1] ELSE RAdd(row1[i], row2[i])]

\* add_rows_pairwise
add_rows_pairwise(row1, row2) ==
    [i \in 1 .. Len(row1) |-> IF i = 1 THEN row2[1] ELSE RAdd(row1[i], row2[i])]

\* accumulate(data, add_rows_pairwise) taking the items lo..hi of data
\* after the results acc of the items before them.  The split in halves
\* keeps the evaluation shallow; each half is evaluated before the next.
RECURSIVE accumulate(_, _, _, _)
accumulate(acc, data, lo, hi) ==
    IF lo > hi THEN acc
    ELSE IF lo = hi
    THEN Append(acc, IF lo = 1 THEN data[1]
                     ELSE add_rows_pairwise(acc[lo - 1], data[lo]))
    ELSE LET mid == (lo + hi) \div 2
         IN  CHOOSE r \in { accumulate(g, data, mid + 1, hi) :
                              g \in { accumulate(acc, data, lo, mid) } } : TRUE

\* line 550
Cumulative(data) == accumulate(<< >>, data, 1, Len(data))

\* make_earnings_table as one function: the table returned, or the exception
make_earnings_table(offers, start_date, nr_years, taxes, aefy, aes, paydays) ==
    CHOOSE r \in
      { IF e.raised # "" THEN [raised |-> e.raised, table |-> << >>]
        ELSE CHOOSE rv \in
          { IF v.raised # "" THEN [raised |-> v.raised, table |-> << >>]
            ELSE CHOOSE rt \in
              { IF t.raised # "" THEN [raised |-> t.raised, table |-> << >>]
                ELSE CHOOSE rw \in
                  { IF w.raised # ""
                    THEN [raised |-> w.raised, table |-> << >>]
                    ELSE [raised |-> "", table |-> Cumulative(w.data)] :
                      w \in { WalkDays(offers, start_date, e.end_date,
                                       paydays, v.vests, taxes,
                                       t.offer_taxes) } } : TRUE :
                  t \in { BuildTaxes(offers, start_date, e.end_date, taxes,
                                     aefy, aes, paydays, v.vests) } } : TRUE :
              v \in { BuildVests(offers, start_date, e.end_date) } } : TRUE :
          e \in { EndDate(start_date, nr_years) } } : TRUE

-----------------------------------------------------------------------------
(* calculate_due applied to the repository's tables.                       *)

MaxGrid == 40

DueAmounts ==
    { R(k * 12500) : k \in 0 .. MaxGrid }
    \cup { R(9275), R(9276), R(37650), R(91150), R(118500), R(186300) }

DueTables ==
    { NO_TAXES, FEDERAL_TAX_BRACKETS_2016, AMT_BRACKETS_2016,
      STATE_TAX_BRACKETS_2016_CA, STATE_SSDI_BRACKETS_2016_CA,
      MEDICARE_TAX_BRACKETS_2016, SOCIAL_SECURITY_TAX_BRACKETS_2016 }

DueInit ==
    /\ cd_gross_pay \in DueAmounts
    /\ cd_brackets \in DueTables
    /\ cd_pc = "call"
    /\ cd_result = R(0)

DueIdle ==
    /\ cd_gross_pay = R(0)
    /\ cd_brackets = NO_TAXES
    /\ cd_pc = "idle"
    /\ cd_result = R(0)

DueCall ==
    /\ cd_pc = "call"
    /\ cd_result' = calculate_due(cd_gross_pay, cd_brackets)
    /\ cd_pc' = "returned"
    /\ UNCHANGED <<cd_gross_pay, cd_brackets>>
    /\ UNCHANGED <<taxVars, mvVars, tblVars, payVars>>

-----------------------------------------------------------------------------
(* A Taxes object built from a short stream of income events and queried.  *)

MaxEvents == 2

TaxEventDates == { Date(2016, 6, 1), Date(2016, 12, 31), Date(2017, 1, 1) }

TaxEventAmounts == { R(0), R(30), R(150) }

TaxEvents ==
    { [date |-> d, amount |-> a, state |-> st] :
        d \in TaxEventDates, a \in TaxEventAmounts, st \in {"CA", "WA"} }

TaxQueryDates == TaxEventDates \cup { Date(2016, 7, 4) }

TaxQueryPays == { R(0), R(30) }

TaxInit ==
    /\ tx_events \in UNION { [1 .. n -> TaxEvents] : n \in 1 .. MaxEvents }
    /\ tx_pc = "new"
    /\ tx_self = [raised |-> "unconstructed"]
    /\ tx_query = << >>
    /\ tx_answer = [raised |-> "no call"]

TaxIdle ==
    /\ tx_events = << >>
    /\ tx_pc = "idle"
    /\ tx_self = [raised |-> "unconstructed"]
    /\ tx_query = << >>
    /\ tx_answer = [raised |-> "no call"]

\* taxes(income_events)
TaxesConstruct ==
    /\ tx_pc = "new"
    /\ tx_self' = Taxes__init__(ModelTaxes, tx_events)
    /\ tx_pc' = IF tx_self'.raised = "" THEN "constructed" ELSE "raised"
    /\ UNCHANGED <<tx_events, tx_query, tx_answer>>
    /\ UNCHANGED <<dueVars, mvVars, tblVars, payVars>>

\* taxes.calculate_take_home_pay(date, raw_pay)
TakeHomeQuery ==
    /\ tx_pc = "constructed"
    /\ \E date \in TaxQueryDates, raw_pay \in TaxQueryPays :
          /\ tx_query' = <<date, raw_pay>>
          /\ tx_answer' = calculate_take_home_pay(tx_self, date, raw_pay)
    /\ UNCHANGED <<tx_events, tx_pc, tx_self>>
    /\ UNCHANGED <<dueVars, mvVars, tblVars, payVars>>

-----------------------------------------------------------------------------
(* make_vests run on a grant, one loop iteration at a time.                *)

MaxVestDates == 2

\* (2, 30) is a pair of ints that is the date of no day
VestDatePool == { <<2, 20>>, <<11, 20>>, <<2, 29>>, <<2, 30>> }

VestDateLists ==
    UNION { [1 .. n -> VestDatePool] : n \in 1 .. MaxVestDates }

VestRatios ==
    { << R(1) >>,
      << Frac(1, 2), Frac(1, 2) >>,
      << Frac(1, 4), Frac(1, 4), Frac(1, 2) >> }

VestStartDates ==
    { Date(2015, 2, 28), Date(2015, 8, 15), Date(2016, 2, 20), Date(2016, 2, 29) }

MvInit ==
    \E annual_ratios \in VestRatios, start_date \in VestStartDates,
       vesting_dates \in VestDateLists :
        mv = [pc |-> "call", total |-> R(100), start_date |-> start_date,
              vesting_dates |-> vesting_dates,
              annual_ratios |-> annual_ratios,
              arg_annual_ratios |-> annual_ratios, vests |-> << >>]

MvIdle == mv = [pc |-> "idle"]

\* lines 437-442
MvCall ==
    /\ mv.pc = "call"
    /\ mv' = MvEntry(mv.total, mv.annual_ratios, mv.start_date, mv.vesting_dates)
    /\ UNCHANGED <<dueVars, taxVars, tblVars, payVars>>

\* lines 443-452, one iteration
MvIterate ==
    /\ mv.pc = "loop"
    /\ mv.annual_ratios # << >>
    /\ mv' = MvBody(mv)
    /\ UNCHANGED <<dueVars, taxVars, tblVars, payVars>>

\* line 453
MvReturn ==
    /\ mv.pc = "loop"
    /\ mv.annual_ratios = << >>
    /\ mv' = [mv EXCEPT !.pc = "returned"]
    /\ UNCHANGED <<dueVars, taxVars, tblVars, payVars>>

-----------------------------------------------------------------------------
(* pay_info called for an offer on the days from its start date on, as     *)
(* gen_raw_pay and make_earnings_table call it.  Amounts are in thousands. *)

MaxDaysAfter == 370

PayBonusDates ==
    { << <<1, 1>> >>, DEFAULT_BONUS_DATES, << <<1, 1>>, <<6, 1>>, <<9, 1>> >> }

PayOffers ==
    { Offer([name |-> "Initrode", base |-> base, bonus |-> R(5),
             state |-> "CA", bonus_target |-> bonus_target,
             bonus_dates |-> bonus_dates,
             refresher_amount |-> R(0), refresher_dates |-> << <<1, 1>> >>,
             grants |-> << >>]) :
        base \in { R(24), R(48) },
        bonus_target \in { R(0), Frac(1, 4) },
        bonus_dates \in PayBonusDates }

PayStartDates == { Date(2015, 1, 1), Date(2015, 8, 15), Date(2016, 1, 15) }

PayInit ==
    \E offer \in PayOffers, start_date \in PayStartDates,
       n \in 0 .. MaxDaysAfter :
        pi = [pc |-> "call", offer |-> offer, start_date |-> start_date,
              day |-> AddDays(start_date, n), paydays |-> DEFAULT_PAYDAYS,
              vests |-> << >>, result |-> [cash |-> R(0), equity |-> R(0)]]

PayIdle == pi = [pc |-> "idle"]

\* pay_info(offer, day, start_date, paydays, vests)
PayInfoCall ==
    /\ pi.pc = "call"
    /\ pi' = [pi EXCEPT !.pc = "returned",
                        !.result = pay_info(1, pi.offer, pi.day, pi.start_date,
                                            pi.paydays, pi.vests)]
    /\ UNCHANGED <<dueVars, taxVars, mvVars, tblVars>>

-----------------------------------------------------------------------------
(* make_earnings_table called on a few offers.  Amounts are in thousands.  *)

MaxOffers == 2

MaxYears == 1

Grant1 ==
    RsuGrant(R(8), StartNone, << <<2, 20>>, <<11, 20>> >>,
             << Frac(1, 2), Frac(1, 2) >>)

GrantAtStart ==
    RsuGrant(R(4), StartDelta(0), << <<2, 20>> >>, << R(1) >>)

Grant2 ==
    RsuGrant(R(12), StartDate(Date(2016, 8, 15)), << <<2, 20>> >>,
             << Frac(1, 4), Frac(3, 4) >>)

GrantRelativeEarly ==
    RsuGrant(R(8), StartDelta(-1), << <<2, 20>> >>, << R(1) >>)

GrantAbsolute ==
    RsuGrant(R(8), StartDate(Date(2016, 3, 1)), << <<2, 20>> >>, << R(1) >>)

\* Initech and Contoso are accepted for every start date that is not after
\* Contoso's grant; Hooli has a grant that starts early whatever the start
\* date; Umbrella asks for refreshers without a grant.
OfferPool ==
    { Offer([name |-> "Initech", base |-> R(24), bonus |-> R(2),
             state |-> "CA", bonus_target |-> R(0),
             bonus_dates |-> DEFAULT_BONUS_DATES,
             refresher_amount |-> R(0), refresher_dates |-> << <<1, 1>> >>,
             grants |-> << Grant1, GrantAtStart >>]),
      Offer([name |-> "Contoso", base |-> R(48), bonus |-> R(0),
             state |-> "WA", bonus_target |-> R(0),
             bonus_dates |-> DEFAULT_BONUS_DATES,
             refresher_amount |-> R(4), refresher_dates |-> << <<3, 1>> >>,
             grants |-> << Grant2 >>]),
      Offer([name |-> "Hooli", base |-> R(24), bonus |-> R(1),
             state |-> "WA", bonus_target |-> R(0),
             bonus_dates |-> DEFAULT_BONUS_DATES,
             refresher_amount |-> R(4), refresher_dates |-> << <<1, 1>> >>,
             grants |-> << GrantAbsolute, GrantRelativeEarly >>]),
      Offer([name |-> "Umbrella", base |-> R(24), bonus |-> R(0),
             state |-> "WA", bonus_target |-> R(0),
             bonus_dates |-> DEFAULT_BONUS_DATES,
             refresher_amount |-> R(4), refresher_dates |-> << <<1, 1>> >>,
             grants |-> << >>]) }

TableStartDates == { Date(2015, 2, 28), Date(2016, 2, 29), Date(2016, 8, 15) }

AlreadyEarned ==
    { [first_year |-> R(0), state |-> "None"],
      [first_year |-> R(6), state |-> "WA"],
      [first_year |-> R(0 - 100), state |-> "WA"] }

TblInit ==
    /\ met_offers \in UNION { [1 .. n -> OfferPool] : n \in 1 .. MaxOffers }
    /\ met_start_date \in TableStartDates
    /\ met_nr_years \in 0 .. MaxYears
    /\ met_taxes \in {"None", "ModelTaxes"}
    \* without taxes the already-earned arguments are never read
    /\ met_already_earned \in
           IF met_taxes = "None"
           THEN { [first_year |-> R(0), state |-> "None"] }
           ELSE AlreadyEarned
    /\ met_paydays = DEFAULT_PAYDAYS
    /\ met_pc = "call"
    /\ met_raised = ""
    /\ met_end_date = met_start_date
    /\ met_vests = << >>
    /\ met_synthetic = << >>
    /\ met_offer_taxes = << >>
    /\ met_data = << >>
    /\ met_gross = << >>
    /\ met_queries = {}
    /\ met_table = << >>

TblIdle ==
    /\ met_offers = << >>
    /\ met_start_date = Date(1, 1, 1)
    /\ met_nr_years = 0
    /\ met_taxes = "None"
    /\ met_already_earned = [first_year |-> R(0), state |-> "None"]
    /\ met_paydays = << >>
    /\ met_pc = "idle"
    /\ met_raised = ""
    /\ met_end_date = Date(1, 1, 1)
    /\ met_vests = << >>
    /\ met_synthetic = << >>
    /\ met_offer_taxes = << >>
    /\ met_data = << >>
    /\ met_gross = << >>
    /\ met_queries = {}
    /\ met_table = << >>

\* lines 474-477
ComputeEndDate ==
    /\ met_pc = "call"
    /\ LET e == EndDate(met_start_date, met_nr_years)
       IN  IF e.raised # ""
           THEN /\ met_pc' = "raised"
                /\ met_raised' = e.raised
                /\ UNCHANGED met_end_date
           ELSE /\ met_pc' = "vests"
                /\ met_end_date' = e.end_date
                /\ UNCHANGED met_raised
    /\ UNCHANGED <<tblArgs, met_vests, met_synthetic, met_offer_taxes, met_data, met_gross, met_queries, met_table>>
    /\ UNCHANGED <<dueVars, taxVars, mvVars, payVars>>

\* lines 478-510
MakeVests ==
    /\ met_pc = "vests"
    /\ \E v \in { BuildVests(met_offers, met_start_date, met_end_date) } :
           IF v.raised # ""
           THEN /\ met_pc' = "raised"
                /\ met_raised' = v.raised
                /\ UNCHANGED <<met_vests, met_synthetic>>
           ELSE /\ met_pc' = "taxes"
                /\ met_vests' = v.vests
                /\ met_synthetic' = v.synthetic
                /\ UNCHANGED met_raised
    /\ UNCHANGED <<tblArgs, met_end_date, met_offer_taxes, met_data, met_gross, met_queries, met_table>>
    /\ UNCHANGED <<dueVars, taxVars, mvVars, payVars>>

\* lines 512-527
MakeTaxes ==
    /\ met_pc = "taxes"
    /\ \E t \in { BuildTaxes(met_offers, met_start_date, met_end_date,
                               met_taxes, met_already_earned.first_year,
                               met_already_earned.state, met_paydays,
                               met_vests) } :
           IF t.raised # ""
           THEN /\ met_pc' = "raised"
                /\ met_raised' = t.raised
                /\ UNCHANGED met_offer_taxes
           ELSE /\ met_pc' = "walk"
                /\ met_offer_taxes' = t.offer_taxes
                /\ UNCHANGED met_raised
    /\ UNCHANGED <<tblArgs, met_end_date, met_vests, met_synthetic, met_data, met_gross, met_queries, met_table>>
    /\ UNCHANGED <<dueVars, taxVars, mvVars, payVars>>

\* lines 529-548
Walk ==
    /\ met_pc = "walk"
    /\ \E w \in { WalkDays(met_offers, met_start_date, met_end_date,
                             met_paydays, met_vests, met_taxes,
                             met_offer_taxes) } :
           /\ met_gross' = w.gross
           /\ met_queries' = w.queries
           /\ IF w.raised # ""
              THEN /\ met_pc' = "raised"
                   /\ met_raised' = w.raised
                   /\ UNCHANGED met_data
              ELSE /\ met_pc' = "fold"
                   /\ met_data' = w.data
                   /\ UNCHANGED met_raised
    /\ UNCHANGED <<tblArgs, met_end_date, met_vests, met_synthetic, met_offer_taxes, met_table>>
    /\ UNCHANGED <<dueVars, taxVars, mvVars, payVars>>

\* line 550
Return ==
    /\ met_pc = "fold"
    /\ met_table' = Cumulative(met_data)
    /\ met_pc' = "returned"
    /\ UNCHANGED <<tblArgs, met_raised, met_end_date, met_vests, met_synthetic, met_offer_taxes, met_data, met_gross, met_queries>>
    /\ UNCHANGED <<dueVars, taxVars, mvVars, payVars>>

-----------------------------------------------------------------------------
(* The specifications.                                                     *)

InitDue == DueInit /\ TaxIdle /\ MvIdle /\ PayIdle /\ TblIdle

NextDue == DueCall

SpecDue == InitDue /\ [][NextDue]_vars

InitTaxes == DueIdle /\ TaxInit /\ MvIdle /\ PayIdle /\ TblIdle

NextTaxes == TaxesConstruct \/ TakeHomeQuery

SpecTaxes == InitTaxes /\ [][NextTaxes]_vars

InitVests == DueIdle /\ TaxIdle /\ MvInit /\ PayIdle /\ TblIdle

NextVests == MvCall \/ MvIterate \/ MvReturn

SpecVests == InitVests /\ [][NextVests]_vars

InitPay == DueIdle /\ TaxIdle /\ MvIdle /\ PayInit /\ TblIdle

NextPay == PayInfoCall

SpecPay == InitPay /\ [][NextPay]_vars

Init == DueIdle /\ TaxIdle /\ MvIdle /\ PayIdle /\ TblInit

Next == ComputeEndDate \/ MakeVests \/ MakeTaxes \/ Walk \/ Return

Spec == Init /\ [][Next]_vars

-----------------------------------------------------------------------------
(* The claims.                                                             *)

\* The reference marginal computation: bracket k taxes the part of the
\* amount lying between upperLimit_(k-1) and upperLimit_k.
RECURSIVE MarginalTax(_, _, _)
MarginalTax(amount, brackets, k) ==
    IF k > Len(brackets) THEN R(0)
    ELSE LET lower == IF k = 1 THEN R(0) ELSE brackets[k - 1].limit
             upper == brackets[k].limit
             part  == RMax(R(0), RSub(RMin(amount, upper), RMin(amount, lower)))
         IN  RAdd(RMul(part, brackets[k].rate),
                  MarginalTax(amount, brackets, k + 1))

\* C1: for every non-negative amount and every table with non-decreasing
\* limits ending unbounded, calculate_due returns the marginal computation
\* sum_k rate_k * (part of the amount between limit_(k-1) and limit_k).
C1_MarginalComputation ==
    cd_pc = "returned" =>
        cd_result = MarginalTax(cd_gross_pay, cd_brackets, 1)

\* C2: for every year of the income events, the stored year tax is the
\* ordinary federal tax (before the AMT comparison) plus the jurisdiction
\* tax plus the medicare tax plus the social-security tax.
C2_StoredYearTax ==
    tx_pc = "constructed" =>
        \A y \in DOMAIN tx_self.tax_by_year :
            LET loc == tx_self.year_locals[y]
            IN  tx_self.tax_by_year[y] =
                    RAdd(RAdd(RAdd(loc.federal_tax, loc.total_state_tax),
                              loc.medicare_tax),
                         loc.social_security_tax)

\* the jurisdiction tax of a year: over all its jurisdictions, the income
\* tax on max(0, income - deduction) plus the payroll-style tax on the
\* gross jurisdiction income
RECURSIVE JurisdictionTax(_, _)
JurisdictionTax(iby, states) ==
    IF states = {} THEN R(0)
    ELSE LET st == CHOOSE x \in states : TRUE
             t == StateTax(ModelTaxes, st, iby[st])
         IN  RAdd(RAdd(t.state_tax, t.state_sdi),
                  JurisdictionTax(iby, states \ {st}))

\* C3: when a year's income events span more than one jurisdiction, the
\* jurisdiction-tax component of the year's stored tax is the sum over all
\* the jurisdictions, not the figure of a single one.
C3_AllJurisdictions ==
    tx_pc = "constructed" =>
        \A y \in DOMAIN tx_self.tax_by_year :
            Cardinality(DOMAIN tx_self.income_by_year[y]) > 1 =>
                RSub(tx_self.tax_by_year[y],
                     tx_self.year_locals[y].federal_tax)
                  = JurisdictionTax(tx_self.income_by_year[y],
                                    DOMAIN tx_self.income_by_year[y])

\* the years of the event stream whose aggregated income is zero
ZeroIncomeYears(events) ==
    { y \in { events[i].date.year : i \in DOMAIN events } :
        \A i \in DOMAIN events :
            events[i].date.year = y => events[i].amount = R(0) }

\* C8: for an event stream with a year of zero aggregated income the
\* aggregator is constructed, and a take-home lookup for a registered date
\* of that year fails with an error raised by the lookup.
C8_ZeroIncomeLookupFails ==
    (tx_pc # "new" /\ ZeroIncomeYears(tx_events) # {}) =>
        /\ tx_pc = "constructed"
        /\ (tx_query # << >> /\ tx_query[1] \in tx_self.income_dates
              /\ tx_query[1].year \in ZeroIncomeYears(tx_events))
            => tx_answer.raised = "ZeroDivisionError"

RECURSIVE SumAmounts(_)
SumAmounts(vests) ==
    IF vests = << >> THEN R(0)
    ELSE RAdd(vests[1].amount, SumAmounts(Tail(vests)))

\* the (month, day) pairs of a list that occur in it more than once
HasRepeatedPair(dates) ==
    \E i, j \in DOMAIN dates : i # j /\ dates[i] = dates[j]

\* C5: for a grant whose fractions sum to 1 and whose anniversary list has
\* at least one pair (repeated pairs included), the amounts of the events
\* make_vests returns sum to the grant total.
C5_VestsSumToTotal ==
    mv.pc = "returned" => SumAmounts(mv.vests) = mv.total

C5_Witness ==
    /\ mv.pc = "returned"
    /\ HasRepeatedPair(mv.vesting_dates)
    /\ Len(mv.vests) = 5
    /\ SumAmounts(mv.vests) = mv.total

\* C6: for every valid input, 29 February included, make_vests returns
\* events of which the first is dated exactly one year after the start
\* date and carries annualFractions[0] * total, no other event being dated
\* on or before it.
C6_CliffFirst ==
    mv.pc \in {"raised", "returned"} =>
        /\ mv.pc = "returned"
        /\ mv.vests[1].date.month = mv.start_date.month
        /\ mv.vests[1].date.day = mv.start_date.day
        /\ mv.vests[1].date.year = mv.start_date.year + 1
        /\ mv.vests[1].amount = RMul(mv.arg_annual_ratios[1], mv.total)
        /\ \A k \in 2 .. Len(mv.vests) :
              DateLt(mv.vests[1].date, mv.vests[k].date)


-----------------------------------------------------------------------------
(* Claims about make_earnings_table.                                       *)

\* the vests of every offer have been built
VestsBuilt == met_pc \in {"taxes", "walk", "fold", "returned"}

\* the days of the table window [start_date, end_date) whose (month, day)
\* is one of `dates`
WindowDaysOn(dates) ==
    LET IsOn(day) == InDates(day.month, day.day, dates)
    IN  SelectSeq(iterdates(met_start_date, met_end_date), IsOn)

\* the synthetic grants of `offer`, one per day of `days`, with the
\* refresher amount and the first declared grant's shape
RefresherGrantsOn(offer, days) ==
    [n \in DOMAIN days |->
        [total |-> offer.refresher_amount,
         vesting |-> offer.grants[1].vesting,
         start |-> days[n],
         vesting_dates |-> offer.grants[1].vesting_dates]]

\* C4: for an offer with a non-zero refresher amount and a declared grant,
\* the synthetic grants made are exactly one for each day of the table
\* window whose (month, day) is among the refresher_dates given to Offer,
\* each with the refresher amount and the first grant's fractions and
\* anniversaries.
C4_RefreshersOnRefresherDates ==
    VestsBuilt =>
        \A i \in DOMAIN met_offers :
            (met_offers[i].refresher_amount # R(0)
                /\ met_offers[i].grants # << >>)
            => met_synthetic[i] =
                   RefresherGrantsOn(met_offers[i],
                       WindowDaysOn(met_offers[i].arg_refresher_dates))

\* start_date advanced by n years
YearsLater(date, n) == Date(date.year + n, date.month, date.day)

\* the rows of the table are dated start_date, start_date + 1 day, ...
RowsDayByDay ==
    \A n \in DOMAIN met_table : met_table[n][1] = AddDays(met_start_date, n - 1)

\* C7: a returned table has exactly one row per day, in ascending date
\* order, from start_date through start_date advanced by nr_years years,
\* both included.
C7_RowPerDayThroughLastAnniversary ==
    met_pc = "returned" =>
        /\ Len(met_table) =
               DaysBetween(YearsLater(met_start_date, met_nr_years),
                           met_start_date) + 1
        /\ RowsDayByDay
        /\ met_table[1][1] = met_start_date
        /\ met_table[Len(met_table)][1] =
               YearsLater(met_start_date, met_nr_years)

C7_Witness ==
    /\ met_pc = "returned"
    /\ met_nr_years >= 1
    /\ Len(met_table) >= 366
    /\ met_table[Len(met_table)][1] = YearsLater(met_start_date, met_nr_years)

\* C7 as stated: a returned table has one row per day of
\* [start, start + nr_years + 1 year), the last row dated the day before
\* start_date advanced by nr_years + 1 years.
C7_RowPerDayOfOneMoreYear ==
    met_pc = "returned" =>
        /\ Len(met_table) =
               DaysBetween(YearsLater(met_start_date, met_nr_years + 1),
                           met_start_date)
        /\ RowsDayByDay
        /\ met_table[1][1] = met_start_date
        /\ met_table[Len(met_table)][1] =
               AddDays(YearsLater(met_start_date, met_nr_years + 1), -1)

\* a declared grant's effective start is earlier than start_date: an
\* absolute date before it, or a negative offset from it
StartsEarly(grant) ==
    \/ grant.start.kind = "date"
           /\ ToOrdinal(grant.start.date) < ToOrdinal(met_start_date)
    \/ grant.start.kind = "timedelta" /\ grant.start.days < 0

\* the (offer, grant) positions of the grants that start early
EarlyGrants ==
    UNION { { <<i, j>> : j \in { k \in DOMAIN met_offers[i].grants :
                                     StartsEarly(met_offers[i].grants[k]) } } :
              i \in DOMAIN met_offers }

\* C9: when a declared grant of an offer starts before start_date, wherever
\* it stands in the input, the call gets no further than building the vests
\* and has no row; and the call is rejected for a grant starting before the
\* job only when there is such a grant, so a grant with no start or with a
\* start equal to start_date is not rejected for it.
C9_EarlyGrantRejected ==
    /\ EarlyGrants # {} =>
           /\ met_pc \in {"call", "vests", "raised"}
           /\ met_data = << >>
           /\ met_table = << >>
    /\ met_raised = GrantBeforeStart => EarlyGrants # {}

C9_Witness ==
    /\ met_pc = "raised"
    /\ met_raised = GrantBeforeStart
    /\ EarlyGrants # {}
    /\ \A p \in EarlyGrants : p[1] > 1 /\ p[2] > 1
    /\ \E j \in DOMAIN met_offers[1].grants :
           met_offers[1].grants[j].start.kind = "None"

\* the four cumulative columns of the offer at position i of a table
OfferColumns(table, i) ==
    [n \in DOMAIN table |-> SubSeq(table[n], 4 * i - 2, 4 * i + 1)]

\* C10: the four cumulative columns a returned table has for an offer are
\* those of the table made for that offer alone with the same start date,
\* years, paydays, tax model and already-earned amount, whatever the other
\* offers and the offer's position among them.
C10_ColumnsOfOfferAlone ==
    met_pc = "returned" =>
        \A i \in DOMAIN met_offers :
            \E alone \in { make_earnings_table(
                               << met_offers[i] >>, met_start_date,
                               met_nr_years, met_taxes,
                               met_already_earned.first_year,
                               met_already_earned.state, met_paydays) } :
                /\ alone.raised = ""
                /\ OfferColumns(alone.table, 1) = OfferColumns(met_table, i)

C10_Witness ==
    /\ met_pc = "returned"
    /\ Len(met_offers) = 2
    /\ met_offers[1] # met_offers[2]
    /\ met_taxes # "None"
    /\ \A i \in 1 .. 2 :
           \E k \in DOMAIN met_vests :
               /\ met_vests[k].offer = i
               /\ DateLt(met_vests[k].date, met_end_date)
    /\ \A i \in 1 .. 2 :
           RLt(R(0), OfferColumns(met_table, i)[Len(met_table)][2])


-----------------------------------------------------------------------------
(* More claims about make_vests.                                           *)

\* the events 2, 3, ... are the fractions 2 .. n in order, each as m parts
\* of annual_ratios[j] / m * total
PartsOfFractions(f) ==
    LET n == Len(f.arg_annual_ratios)
        m == Len(f.vesting_dates)
    IN  \A j \in 2 .. n : \A i \in 1 .. m :
            f.vests[1 + (j - 2) * m + i].amount =
                RMul(RDiv(f.arg_annual_ratios[j], R(m)), f.total)

StrictlyIncreasingDates(vests) ==
    \A k \in 1 .. Len(vests) - 1 : DateLt(vests[k].date, vests[k + 1].date)

\* C11: once the day-by-day loop of make_vests is entered, for n >= 1
\* fractions and m >= 1 anniversary pairs, it does not end in an exception
\* but returns, with exactly 1 + (n - 1) * m events in strictly increasing
\* date order, the later fractions each released as m parts of
\* fraction / m * total.
C11_LoopConsumesAllFractions ==
    /\ mv.pc # "OverflowError"
    /\ mv.pc = "returned" =>
           /\ mv.annual_ratios = << >>
           /\ Len(mv.vests) =
                  1 + (Len(mv.arg_annual_ratios) - 1) * Len(mv.vesting_dates)
           /\ StrictlyIncreasingDates(mv.vests)
           /\ PartsOfFractions(mv)


-----------------------------------------------------------------------------
(* More claims about make_earnings_table.                                  *)

\* the sum of field c over the daily rows lo .. hi
RECURSIVE SumField(_, _, _, _)
SumField(data, c, lo, hi) ==
    IF lo > hi THEN R(0)
    ELSE IF lo = hi THEN data[lo][c]
    ELSE LET mid == (lo + hi) \div 2
         IN  RAdd(SumField(data, c, lo, mid), SumField(data, c, mid + 1, hi))

\* the non-date fields of a row
Fields(row) == 2 .. Len(row)

\* every daily figure is non-negative
DailyNonNegative ==
    \A k \in DOMAIN met_data : \A c \in Fields(met_data[k]) :
        RLe(R(0), met_data[k][c])

\* C12: in a returned table the k-th row carries the k-th day's date and,
\* in every other field, the sum of that field over the daily rows up to
\* the k-th: the first row is the first daily row, every later row is the
\* row before it plus its own daily row, and the last row is the sum of
\* all daily rows.  With non-negative daily figures no column decreases
\* from a row to the next.
C12_RunningSums ==
    met_pc = "returned" =>
        /\ Len(met_table) = Len(met_data)
        /\ \A k \in DOMAIN met_table :
               /\ Len(met_table[k]) = Len(met_data[k])
               /\ met_table[k][1] = met_data[k][1]
               /\ \A c \in Fields(met_table[k]) :
                      met_table[k][c] =
                          IF k = 1 THEN met_data[1][c]
                          ELSE RAdd(met_table[k - 1][c], met_data[k][c])
        /\ \A c \in Fields(met_table[Len(met_table)]) :
               met_table[Len(met_table)][c] =
                   SumField(met_data, c, 1, Len(met_data))
        /\ DailyNonNegative =>
               \A k \in 2 .. Len(met_table) : \A c \in Fields(met_table[k]) :
                   RLe(met_table[k - 1][c], met_table[k][c])

C12_Witness ==
    /\ met_pc = "returned"
    /\ Len(met_table) >= 366
    /\ met_taxes # "None"
    /\ DailyNonNegative
    /\ met_table[Len(met_table)][1] # met_table[1][1]
    /\ \A c \in Fields(met_table[1]) :
           RLt(met_table[1][c], met_table[Len(met_table)][c])


-----------------------------------------------------------------------------
(* Claims about pay_info.                                                  *)

\* the target bonus of one bonus date: bonus_target * base / n
BonusPerDate(offer) ==
    RDiv(RMul(offer.bonus_target, offer.base), R(Len(offer.bonus_dates)))

\* what pay_info put in cash beyond the signing bonus or the salary slice
AddedBonus ==
    RSub(pi.result.cash,
         IF pi.day = pi.start_date THEN pi.offer.bonus
         ELSE IF \E i \in DOMAIN pi.paydays : pi.paydays[i] = pi.day.day
         THEN RDiv(pi.offer.base, R(12 * Len(pi.paydays)))
         ELSE R(0))

\* C13: on a day that is one of the offer's n bonus dates, pay_info adds
\* bonus_target * base / n scaled by min(1, days since start / (365 / n)):
\* nothing on the start date, never more than bonus_target * base / n, and
\* all of it from 365 / n days after the start; on the start date the cash
\* is the signing bonus without the salary slice.
C13_ProratedBonus ==
    pi.pc = "returned" =>
        LET n == Len(pi.offer.bonus_dates)
            days == DaysBetween(pi.day, pi.start_date)
            scale == RMin(R(1), Frac(days * n, 365))
        IN  /\ InDates(pi.day.month, pi.day.day, pi.offer.bonus_dates) =>
                   /\ AddedBonus = RMul(BonusPerDate(pi.offer), scale)
                   /\ RLe(AddedBonus, BonusPerDate(pi.offer))
                   /\ days * n >= 365 => AddedBonus = BonusPerDate(pi.offer)
            /\ pi.day = pi.start_date => pi.result.cash = pi.offer.bonus

C13_Witness ==
    /\ pi.pc = "returned"
    /\ InDates(pi.day.month, pi.day.day, pi.offer.bonus_dates)
    /\ pi.day # pi.start_date
    /\ DaysBetween(pi.day, pi.start_date) * Len(pi.offer.bonus_dates) < 365
    /\ RLt(R(0), AddedBonus)
    /\ RLt(AddedBonus, BonusPerDate(pi.offer))

\* the aggregated income that the tax aggregator of a query's offer holds for
\* the calendar year of the query's day
QueriedYearIncome(q) ==
    YearIncome(met_offer_taxes[q.offer].income_by_year[q.day.year])

\* every take-home query of the walk is for a registered date of a year with
\* strictly positive income, on a day with positive gross cash or equity, and
\* the walk does not raise
WalkQueriesAnswered ==
    /\ met_pc = "raised" => met_queries = {}
    /\ \A q \in met_queries :
           /\ q.day \in met_offer_taxes[q.offer].income_dates
           /\ RLt(R(0), QueriedYearIncome(q))
           /\ RLt(R(0), q.cash) \/ RLt(R(0), q.equity)

\* C14, amended: with taxation enabled, non-negative salary, bonus and grant
\* amounts and a non-negative already-earned first-year income, every
\* take-home query of the day-by-day walk is for a date registered with the
\* offer's tax aggregator, in a calendar year of strictly positive aggregated
\* income, on a day where the offer's gross cash or equity is positive, and
\* the walk never ends in an exception.
C14_QueriesOfNonNegativeIncome ==
    RLe(R(0), met_already_earned.first_year) => WalkQueriesAnswered

\* a finished walk with taxes that queried a pay day without a vest and a
\* day with a vest, in two calendar years
C14_Witness ==
    /\ met_pc = "returned"
    /\ met_taxes # "None"
    /\ RLe(R(0), met_already_earned.first_year)
    /\ \E q \in met_queries : RLt(R(0), q.cash) /\ q.equity = R(0)
    /\ \E q \in met_queries : RLt(R(0), q.equity)
    /\ \E q1, q2 \in met_queries : q1.day.year # q2.day.year

\* C14 as stated: every take-home query of the walk is for a registered date
\* whose calendar year has strictly positive aggregated income, on a day with
\* positive gross cash or equity, whatever was already earned before the
\* start date.
C14_QueriesOfPositiveIncome ==
    WalkQueriesAnswered

\* the gross cash plus gross equity of offer i over the days lo..hi
RECURSIVE SumGross(_, _, _, _)
SumGross(gross, i, lo, hi) ==
    IF lo > hi THEN R(0)
    ELSE IF lo = hi THEN RAdd(gross[lo][i].cash, gross[lo][i].equity)
    ELSE LET mid == (lo + hi) \div 2
         IN  RAdd(SumGross(gross, i, lo, mid), SumGross(gross, i, mid + 1, hi))

\* cash + equity + tax of offer i in a row
CashEquityTax(row, i) ==
    RAdd(RAdd(row[4 * i - 2], row[4 * i - 1]), row[4 * i + 1])

\* C15: in every row of a returned table and for every offer the total
\* column is the cash column plus the equity column, and cash + equity + tax
\* is the gross cash plus gross equity that pay_info returned for the offer
\* over the days up to that row (first row: the first day's gross; each later
\* row: the row before plus that day's gross; last row: the gross of all
\* days); without taxation the tax column is 0 in every row.
C15_GrossIsNetPlusTax ==
    met_pc = "returned" =>
        /\ Len(met_gross) = Len(met_table)
        /\ \A k \in DOMAIN met_table : \A i \in DOMAIN met_offers :
               /\ met_table[k][4 * i] =
                      RAdd(met_table[k][4 * i - 2], met_table[k][4 * i - 1])
               /\ CashEquityTax(met_table[k], i) =
                      RAdd(IF k = 1 THEN R(0)
                           ELSE CashEquityTax(met_table[k - 1], i),
                           RAdd(met_gross[k][i].cash, met_gross[k][i].equity))
               /\ met_taxes = "None" => met_table[k][4 * i + 1] = R(0)
        /\ \A i \in DOMAIN met_offers :
               CashEquityTax(met_table[Len(met_table)], i) =
                   SumGross(met_gross, i, 1, Len(met_gross))

\* the gross equity of offer i, day by day
GrossEquity(i) ==
    [n \in DOMAIN met_gross |-> << met_gross[n][i].equity >>]

\* a returned table of a year with taxes where an offer ends with tax
\* withheld from both its cash and its equity
C15_Witness ==
    /\ met_pc = "returned"
    /\ met_taxes # "None"
    /\ met_nr_years = 1
    /\ \E i \in DOMAIN met_offers :
           LET last == met_table[Len(met_table)]
           IN  /\ RLt(R(0), last[4 * i + 1])
               /\ RLt(R(0), last[4 * i - 1])
               /\ RLt(last[4 * i - 1],
                      SumField(GrossEquity(i), 1, 1, Len(met_gross)))

=============================================================================
